---- MODULE Spec2Model ----
(***************************************************************************)
(* A model of noon, the compile-time mediator: the typed lists (hlist.rs), *)
(* the four entry kinds (entry.rs), the builder (mediator.rs, mirrored by  *)
(* fragment.rs) and the sealed mediator (concrete.rs).                     *)
(*                                                                         *)
(* Types are modelled by their shape: a handler entry carries its message  *)
(* and response type, a notifier set its message type.  The type-level     *)
(* index I of ContainsAt<T, I> is a natural number (Z = 0, Succ<I> = I+1)  *)
(* and the trait bound `List: ContainsAt<T, I>` is the guard of the        *)
(* operation that requires it.  Callbacks are opaque closures: the k-th    *)
(* closure handed to the builder is the number k, and what it does with a  *)
(* message is given by Beh.                                                *)
(***************************************************************************)
EXTENDS Naturals, Sequences, FiniteSets

\* ---------------------------------------------------------------- bounds
MaxOps == 5            \* registrations and dispatch calls in one run
MaxMsg == 1            \* message payloads are 0..MaxMsg

MsgTypes == {"i32", "bool"}
RespTypes == {"bool", "str"}
MsgVals == 0..MaxMsg

VARIABLES
    phase,      \* "building": a MediatorBuilder is held; "built": a Mediator
    contents,   \* the handler list, head first
    receivers,  \* the notifier-set list, head first
    ncb,        \* closures handed to the builder so far
    hpushed,    \* history: the handler entries in the order they were pushed
    npushed,    \* history: the notifier-set shapes in the order they were pushed
    added,      \* history: <<n, cb>> for each receiver cb added to the n-th pushed set
    calls       \* the dispatch calls made so far, each with its progress

vars == <<phase, contents, receivers, ncb, hpushed, npushed, added, calls>>

\* registrations and dispatch calls made so far
Ops == ncb + Len(receivers) + Len(calls)

\* ------------------------------------------------------------- callbacks
\* What closure cb does with payload m.  A synchronous closure returns unless
\* it panics; the future of an asynchronous closure is Ready at its first
\* poll ("ok"), Pending once and then Ready ("pend"), or panics when polled.
Beh(cb, m) ==
    IF m > 0 /\ cb = m + 1 THEN "panic"
    ELSE IF (cb + m) % 2 = 0 THEN "pend"
    ELSE "ok"

None == [tag |-> "none", cb |-> 0, msg |-> 0]
Unit == [tag |-> "unit", cb |-> 0, msg |-> 0]
Panic(cb, m) == [tag |-> "panic", cb |-> cb, msg |-> m]
\* the value closure cb computes from payload m
Ret(cb, m) == [tag |-> "ret", cb |-> cb, msg |-> m]

\* ------------------------------------------------------------ hlist.rs
Nil == << >>

\* a push that nests the new entry behind the existing ones
push_back(list, t) == list \o <<t>>

push(list, t) == <<t>> \o list

\* a lookup that ignores the index and always answers with the head
take_head(list, I) == Head(list)

RECURSIVE take(_, _)
take(list, I) ==
    IF I = 0 THEN Head(list) ELSE take(Tail(list), I - 1)

\* take_mut hands out the place of the entry; writing `new` through it gives
RECURSIVE take_mut(_, _, _)
take_mut(list, I, new) ==
    IF I = 0 THEN <<new>> \o Tail(list)
    ELSE <<Head(list)>> \o take_mut(Tail(list), I - 1, new)

\* the type of an entry
Shape(e) ==
    IF e.kind \in {"RequestResponse", "RequestResponseAsync"}
    THEN <<e.kind, e.msg, e.resp>>
    ELSE <<e.kind, e.msg>>

\* a containment keyed by entry kind and message type only
RECURSIVE ContainsAt_by_msg(_, _, _)
ContainsAt_by_msg(list, T, I) ==
    /\ list # << >>
    /\ IF I = 0 THEN Shape(Head(list))[1] = T[1] /\ Shape(Head(list))[2] = T[2]
       ELSE ContainsAt_by_msg(Tail(list), T, I - 1)

\* the two impls of ContainsAt<T, I>: Z on a Cons whose head is a T, Succ<I> on
\* a Cons whose tail is ContainsAt<T, I>; Nil implements neither
RECURSIVE ContainsAt(_, _, _)
ContainsAt(list, T, I) ==
    /\ list # Nil
    /\ IF I = 0 THEN Shape(Head(list)) = T
       ELSE ContainsAt(Tail(list), T, I - 1)

\* ------------------------------------------------------------ entry.rs
RequestResponse_from(M, R, f) ==
    [kind |-> "RequestResponse", msg |-> M, resp |-> R, cb |-> f]

RequestResponseAsync_from(M, R, f) ==
    [kind |-> "RequestResponseAsync", msg |-> M, resp |-> R, cb |-> f]

ReceiveNotification_new(M) ==
    [kind |-> "ReceiveNotification", msg |-> M, cbs |-> << >>]

ReceiveNotificationAsync_new(M) ==
    [kind |-> "ReceiveNotificationAsync", msg |-> M, cbs |-> << >>]

\* an add that inserts at the front of cbs
ReceiveNotification_add_front(set, f) == [set EXCEPT !.cbs = <<f>> \o @]

\* ReceiveNotification::add and ReceiveNotificationAsync::add: cbs.push
ReceiveNotification_add(set, f) == [set EXCEPT !.cbs = Append(@, f)]

\* RequestResponse::call: (self.cb)(msg), a panic unwinds through it
RequestResponse_call(handler, m) ==
    IF Beh(handler.cb, m) = "panic"
    THEN [log |-> <<<<"call", handler.cb>>, <<"panic", handler.cb>>>>,
          result |-> Panic(handler.cb, m)]
    ELSE [log |-> <<<<"call", handler.cb>>, <<"ret", handler.cb>>>>,
          result |-> Ret(handler.cb, m)]

\* a fan-out that catches a receiver's panic and goes on with the next receiver
RECURSIVE ReceiveNotification_loop_catching(_, _, _, _)
ReceiveNotification_loop_catching(cbs, m, k, log) ==
    IF k > Len(cbs) THEN [log |-> log, result |-> Unit]
    ELSE ReceiveNotification_loop_catching(cbs, m, k + 1,
             log \o <<<<"call", cbs[k]>>,
                      <<IF Beh(cbs[k], m) = "panic" THEN "panic" ELSE "ret", cbs[k]>>>>)

\* ReceiveNotification::call: for cb in &self.cbs { cb(msg) }, from receiver k
RECURSIVE ReceiveNotification_loop(_, _, _, _)
ReceiveNotification_loop(cbs, m, k, log) ==
    IF k > Len(cbs) THEN [log |-> log, result |-> Unit]
    ELSE IF Beh(cbs[k], m) = "panic"
    THEN [log |-> log \o <<<<"call", cbs[k]>>, <<"panic", cbs[k]>>>>,
          result |-> Panic(cbs[k], m)]
    ELSE ReceiveNotification_loop(cbs, m, k + 1,
             log \o <<<<"call", cbs[k]>>, <<"ret", cbs[k]>>>>)

ReceiveNotification_call(set, m) == ReceiveNotification_loop(set.cbs, m, 1, << >>)

\* the future an asynchronous closure cb returned for payload m, polled for the
\* (polled+1)-th time
FuturePoll(cb, m, polled) ==
    IF Beh(cb, m) = "panic" THEN "panic"
    ELSE IF Beh(cb, m) = "pend" /\ polled = 0 THEN "pending"
    ELSE "ready"

\* a call that defers the closure itself into the returned future
RequestResponseAsync_call_lazy(handler, m) ==
    [fut |-> handler.cb, log |-> << >>]

\* RequestResponseAsync::call: (self.cb)(msg) runs the closure, which returns
\* its boxed future; nothing of the future has run yet
RequestResponseAsync_call(handler, m) ==
    [fut |-> handler.cb, log |-> <<<<"call", handler.cb>>>>]

\* a poll that takes Pending for completion
RequestResponseAsync_poll_once(c) ==
    LET r == FuturePoll(c.fut, c.msg, c.polled) IN
    IF r = "panic"
    THEN [c EXCEPT !.st = "panicked", !.log = Append(@, <<"panic", c.fut>>),
                   !.result = Panic(c.fut, c.msg)]
    ELSE IF r = "pending" THEN [c EXCEPT !.st = "ready", !.result = Unit]
    ELSE [c EXCEPT !.st = "ready", !.log = Append(@, <<"ret", c.fut>>),
                   !.result = Ret(c.fut, c.msg)]

\* one poll of the future handle_async returned: it polls the closure's future
RequestResponseAsync_poll(c) ==
    LET r == FuturePoll(c.fut, c.msg, c.polled) IN
    IF r = "pending" THEN [c EXCEPT !.st = "pending", !.polled = @ + 1]
    ELSE IF r = "panic"
    THEN [c EXCEPT !.st = "panicked", !.log = Append(@, <<"panic", c.fut>>),
                   !.result = Panic(c.fut, c.msg)]
    ELSE [c EXCEPT !.st = "ready", !.log = Append(@, <<"ret", c.fut>>),
                   !.result = Ret(c.fut, c.msg)]

\* a fan-out that starts the next receiver while the current one is Pending
RECURSIVE ReceiveNotificationAsync_poll_unawaited(_, _)
ReceiveNotificationAsync_poll_unawaited(c, cbs) ==
    IF c.fut # 0 /\ FuturePoll(c.fut, c.msg, c.polled) = "panic"
    THEN [c EXCEPT !.st = "panicked", !.log = Append(@, <<"panic", c.fut>>),
                   !.result = Panic(c.fut, c.msg)]
    ELSE LET d == IF c.fut # 0 /\ FuturePoll(c.fut, c.msg, c.polled) = "ready"
                  THEN [c EXCEPT !.log = Append(@, <<"ret", c.fut>>)]
                  ELSE c IN
         IF d.pos >= Len(cbs) THEN [d EXCEPT !.st = "ready", !.result = Unit]
         ELSE ReceiveNotificationAsync_poll_unawaited(
                  [d EXCEPT !.pos = @ + 1, !.fut = cbs[d.pos + 1], !.polled = 0,
                            !.log = Append(@, <<"call", cbs[d.pos + 1]>>)], cbs)

\* one poll of the future of ReceiveNotificationAsync::call:
\*   for cb in &self.cbs { cb(msg.clone()).await; }
\* c.pos receivers have been started; c.fut is the future being awaited
RECURSIVE ReceiveNotificationAsync_poll(_, _)
ReceiveNotificationAsync_poll(c, cbs) ==
    IF c.fut # 0
    THEN LET r == FuturePoll(c.fut, c.msg, c.polled) IN
         IF r = "pending" THEN [c EXCEPT !.st = "pending", !.polled = @ + 1]
         ELSE IF r = "panic"
         THEN [c EXCEPT !.st = "panicked", !.log = Append(@, <<"panic", c.fut>>),
                        !.result = Panic(c.fut, c.msg)]
         ELSE ReceiveNotificationAsync_poll(
                  [c EXCEPT !.log = Append(@, <<"ret", c.fut>>),
                            !.fut = 0, !.polled = 0], cbs)
    ELSE IF c.pos >= Len(cbs) THEN [c EXCEPT !.st = "ready", !.result = Unit]
    ELSE ReceiveNotificationAsync_poll(
             [c EXCEPT !.pos = @ + 1, !.fut = cbs[c.pos + 1], !.polled = 0,
                       !.log = Append(@, <<"call", cbs[c.pos + 1]>>)], cbs)

\* ---------------------------------------------------------- mediator.rs
\* MediatorBuilder::new
Init ==
    /\ phase = "building"
    /\ contents = Nil
    /\ receivers = Nil
    /\ ncb = 0
    /\ hpushed = << >>
    /\ npushed = << >>
    /\ added = << >>
    /\ calls = << >>

add_handler(M, R) ==
    /\ phase = "building"
    /\ Ops < MaxOps
    /\ LET rr == RequestResponse_from(M, R, ncb + 1) IN
       /\ contents' = push(contents, rr)
       /\ hpushed' = Append(hpushed, rr)
    /\ ncb' = ncb + 1
    /\ UNCHANGED <<phase, receivers, npushed, added, calls>>

add_async_handler(M, R) ==
    /\ phase = "building"
    /\ Ops < MaxOps
    /\ LET rr == RequestResponseAsync_from(M, R, ncb + 1) IN
       /\ contents' = push(contents, rr)
       /\ hpushed' = Append(hpushed, rr)
    /\ ncb' = ncb + 1
    /\ UNCHANGED <<phase, receivers, npushed, added, calls>>

listen_for(M) ==
    /\ phase = "building"
    /\ Ops < MaxOps
    /\ LET rn == ReceiveNotification_new(M) IN
       /\ receivers' = push(receivers, rn)
       /\ npushed' = Append(npushed, Shape(rn))
    /\ UNCHANGED <<phase, contents, ncb, hpushed, added, calls>>

listen_for_async(M) ==
    /\ phase = "building"
    /\ Ops < MaxOps
    /\ LET rn == ReceiveNotificationAsync_new(M) IN
       /\ receivers' = push(receivers, rn)
       /\ npushed' = Append(npushed, Shape(rn))
    /\ UNCHANGED <<phase, contents, ncb, hpushed, added, calls>>

add_notification_receiver(M, I) ==
    /\ phase = "building"
    /\ Ops < MaxOps
    /\ ContainsAt(receivers, <<"ReceiveNotification", M>>, I)
    /\ receivers' = take_mut(receivers, I,
                        ReceiveNotification_add(take(receivers, I), ncb + 1))
    /\ added' = Append(added, <<Len(receivers) - I, ncb + 1>>)
    /\ ncb' = ncb + 1
    /\ UNCHANGED <<phase, contents, hpushed, npushed, calls>>

add_async_notification_receiver(M, I) ==
    /\ phase = "building"
    /\ Ops < MaxOps
    /\ ContainsAt(receivers, <<"ReceiveNotificationAsync", M>>, I)
    /\ receivers' = take_mut(receivers, I,
                        ReceiveNotification_add(take(receivers, I), ncb + 1))
    /\ added' = Append(added, <<Len(receivers) - I, ncb + 1>>)
    /\ ncb' = ncb + 1
    /\ UNCHANGED <<phase, contents, hpushed, npushed, calls>>

\* MediatorBuilder::build: Mediator::new(self.contents, self.receivers)
build ==
    /\ phase = "building"
    /\ phase' = "built"
    /\ UNCHANGED <<contents, receivers, ncb, hpushed, npushed, added, calls>>

\* ---------------------------------------------------------- concrete.rs
Call(op, T, I, m, st, fut, log, result) ==
    [op |-> op, T |-> T, I |-> I, msg |-> m, st |-> st, pos |-> 0, fut |-> fut,
     polled |-> 0, log |-> log, result |-> result]

handle(M, R, I, m) ==
    /\ phase = "built"
    /\ Ops < MaxOps
    /\ ContainsAt(contents, <<"RequestResponse", M, R>>, I)
    /\ LET handler == take(contents, I)
           r == RequestResponse_call(handler, m) IN
       calls' = Append(calls,
                    Call("handle", <<"RequestResponse", M, R>>, I, m,
                         IF r.result.tag = "panic" THEN "panicked" ELSE "returned",
                         0, r.log, r.result))
    /\ UNCHANGED <<phase, contents, receivers, ncb, hpushed, npushed, added>>

handle_async(M, R, I, m) ==
    /\ phase = "built"
    /\ Ops < MaxOps
    /\ ContainsAt(contents, <<"RequestResponseAsync", M, R>>, I)
    /\ LET handler == take(contents, I)
           r == RequestResponseAsync_call(handler, m) IN
       calls' = Append(calls,
                    Call("handle_async", <<"RequestResponseAsync", M, R>>, I, m,
                         "created", r.fut, r.log, None))
    /\ UNCHANGED <<phase, contents, receivers, ncb, hpushed, npushed, added>>

\* a notify that drains the receivers it has called out of the set
notify_draining(M, I, m) ==
    /\ phase = "built"
    /\ Ops < MaxOps
    /\ ContainsAt(receivers, <<"ReceiveNotification", M>>, I)
    /\ LET set == take(receivers, I)
           r == ReceiveNotification_call(set, m) IN
       /\ calls' = Append(calls,
                       Call("notify", <<"ReceiveNotification", M>>, I, m,
                            IF r.result.tag = "panic" THEN "panicked" ELSE "returned",
                            0, r.log, r.result))
       /\ receivers' = take_mut(receivers, I, [set EXCEPT !.cbs = << >>])
    /\ UNCHANGED <<phase, contents, ncb, hpushed, npushed, added>>

notify(M, I, m) ==
    /\ phase = "built"
    /\ Ops < MaxOps
    /\ ContainsAt(receivers, <<"ReceiveNotification", M>>, I)
    /\ LET set == take(receivers, I)
           r == ReceiveNotification_call(set, m) IN
       calls' = Append(calls,
                    Call("notify", <<"ReceiveNotification", M>>, I, m,
                         IF r.result.tag = "panic" THEN "panicked" ELSE "returned",
                         0, r.log, r.result))
    /\ UNCHANGED <<phase, contents, receivers, ncb, hpushed, npushed, added>>

\* the async fn's future is created and boxed; none of its body has run
notify_async(M, I, m) ==
    /\ phase = "built"
    /\ Ops < MaxOps
    /\ ContainsAt(receivers, <<"ReceiveNotificationAsync", M>>, I)
    /\ calls' = Append(calls,
                    Call("notify_async", <<"ReceiveNotificationAsync", M>>, I, m,
                         "created", 0, << >>, None))
    /\ UNCHANGED <<phase, contents, receivers, ncb, hpushed, npushed, added>>

\* the caller drives the future of call i by one poll
poll(i) ==
    /\ phase = "built"
    /\ i \in 1..Len(calls)
    /\ calls[i].st \in {"created", "pending"}
    /\ calls' = [calls EXCEPT ![i] =
                    IF calls[i].op = "handle_async"
                    THEN RequestResponseAsync_poll(calls[i])
                    ELSE ReceiveNotificationAsync_poll(calls[i],
                             take(receivers, calls[i].I).cbs)]
    /\ UNCHANGED <<phase, contents, receivers, ncb, hpushed, npushed, added>>

\* the caller drops the future of call i before it has completed: the future
\* is never polled again and no closure runs
drop_future(i) ==
    /\ phase = "built"
    /\ i \in 1..Len(calls)
    /\ calls[i].st \in {"created", "pending"}
    /\ calls' = [calls EXCEPT ![i].st = "dropped"]
    /\ UNCHANGED <<phase, contents, receivers, ncb, hpushed, npushed, added>>

Indices == 0..(MaxOps - 1)

Next ==
    \/ \E M \in MsgTypes, R \in RespTypes : add_handler(M, R)
    \/ \E M \in MsgTypes, R \in RespTypes : add_async_handler(M, R)
    \/ \E M \in MsgTypes : listen_for(M)
    \/ \E M \in MsgTypes : listen_for_async(M)
    \/ \E M \in MsgTypes, I \in Indices : add_notification_receiver(M, I)
    \/ \E M \in MsgTypes, I \in Indices : add_async_notification_receiver(M, I)
    \/ build
    \/ \E M \in MsgTypes, R \in RespTypes, I \in Indices, m \in MsgVals :
           handle(M, R, I, m)
    \/ \E M \in MsgTypes, R \in RespTypes, I \in Indices, m \in MsgVals :
           handle_async(M, R, I, m)
    \/ \E M \in MsgTypes, I \in Indices, m \in MsgVals : notify(M, I, m)
    \/ \E M \in MsgTypes, I \in Indices, m \in MsgVals : notify_async(M, I, m)
    \/ \E i \in 1..MaxOps : poll(i)
    \/ \E i \in 1..MaxOps : drop_future(i)

Spec == Init /\ [][Next]_vars

\* ------------------------------------------------------------ properties
\* the closures a call has invoked, in the order it invoked them
CalledCbs(log) ==
    LET sel == SelectSeq(log, LAMBDA e : e[1] = "call") IN
    [j \in 1..Len(sel) |-> sel[j][2]]

\* what closure f makes of payload m when it is called (and its future driven)
\* directly, without the mediator
RECURSIVE Drive(_, _, _)
Drive(f, m, polled) ==
    LET r == FuturePoll(f, m, polled) IN
    IF r = "pending" THEN Drive(f, m, polled + 1)
    ELSE IF r = "panic" THEN Panic(f, m)
    ELSE Ret(f, m)

FnValue(f, m) == IF Beh(f, m) = "panic" THEN Panic(f, m) ELSE Ret(f, m)

\* the registrations of handlers of type T, by their place in the history
HandlersOf(T) == {k \in 1..Len(hpushed) : Shape(hpushed[k]) = T}
TheHandler(T) == hpushed[CHOOSE k \in HandlersOf(T) : TRUE].cb

\* the receivers added to the n-th pushed notifier set, in the order of adding
AddedTo(n) ==
    LET sel == SelectSeq(added, LAMBDA e : e[1] = n) IN
    [j \in 1..Len(sel) |-> sel[j][2]]

\* the notifier set a call resolved to, by its place in the history
SetOf(c) == Len(npushed) - c.I

\* the log of a fan-out over rs in which every receiver ran to completion
FullLog(rs) ==
    [p \in 1..(2 * Len(rs)) |->
        IF p % 2 = 1 THEN <<"call", rs[(p + 1) \div 2]>> ELSE <<"ret", rs[p \div 2]>>]

\* C1: a handle call for a type (M, R) that exactly one registered handler f has
\* returns f(m), has invoked f exactly once and has invoked no other closure.
C1_HandleReturnsHandlerValue ==
    \A i \in 1..Len(calls) :
        LET c == calls[i] IN
        (c.op = "handle" /\ Cardinality(HandlersOf(c.T)) = 1) =>
            /\ c.result = FnValue(TheHandler(c.T), c.msg)
            /\ CalledCbs(c.log) = <<TheHandler(c.T)>>

C1_Witness ==
    \E i \in 1..Len(calls) :
        /\ calls[i].op = "handle"
        /\ Cardinality(HandlersOf(calls[i].T)) = 1
        /\ calls[i].I > 0
        /\ calls[i].result.tag = "ret"
        /\ Len(hpushed) >= 2
        /\ added # << >>

\* C2: a notify call that returned has invoked the receivers of the set it
\* resolved to in the order they were added, each exactly once, and each had
\* returned before the next was invoked and before notify returned.
C2_NotifyInAddOrder ==
    \A i \in 1..Len(calls) :
        LET c == calls[i] IN
        (c.op = "notify" /\ c.st = "returned") =>
            /\ c.log = FullLog(AddedTo(SetOf(c)))
            /\ c.result = Unit

C2_Witness ==
    \E i \in 1..Len(calls) :
        /\ calls[i].op = "notify"
        /\ calls[i].st = "returned"
        /\ Len(AddedTo(SetOf(calls[i]))) >= 3

\* C3: at every moment of a notify_async call, driven or not, the receivers it
\* has started are a prefix of the set's receivers in the order they were
\* added, every started receiver but the last has completed before the next
\* one was started, and so at most one is in progress.
C3_AsyncFanOutSequential ==
    \A i \in 1..Len(calls) :
        LET c == calls[i]
            rs == AddedTo(SetOf(c)) IN
        c.op = "notify_async" =>
            /\ Len(CalledCbs(c.log)) <= Len(rs)
            /\ \A p \in 1..Len(c.log) :
                   IF p % 2 = 1
                   THEN c.log[p] = <<"call", rs[(p + 1) \div 2]>>
                   ELSE /\ c.log[p][1] \in {"ret", "panic"}
                        /\ c.log[p][2] = rs[p \div 2]
                        /\ c.log[p][1] = "panic" => p = Len(c.log)

C3_Witness ==
    \E i, j \in 1..Len(calls) :
        /\ i # j
        /\ calls[i].op = "notify_async" /\ calls[j].op = "notify_async"
        /\ calls[i].I = calls[j].I
        /\ calls[i].st = "pending" /\ calls[i].pos = 2
        /\ calls[j].st = "pending" /\ calls[j].pos = 1

\* C4: every synchronous handler ever registered is still in the handler list
\* at a valid index for its own type, whatever was registered before or after
\* it, and a handle call expecting (M, R) has invoked a handler registered for
\* exactly (M, R), never the handler of M with another response type.
C4_SameMsgHandlersBothReachable ==
    /\ \A k \in 1..Len(hpushed) :
           hpushed[k].kind = "RequestResponse" =>
               \E I \in 0..(Len(contents) - 1) :
                   /\ ContainsAt(contents, Shape(hpushed[k]), I)
                   /\ take(contents, I) = hpushed[k]
    /\ \A i \in 1..Len(calls) :
           calls[i].op = "handle" =>
               \E k \in HandlersOf(calls[i].T) :
                   CalledCbs(calls[i].log) = <<hpushed[k].cb>>

C4_Witness ==
    \E i, j \in 1..Len(calls) :
        /\ calls[i].op = "handle" /\ calls[j].op = "handle"
        /\ calls[i].T[2] = calls[j].T[2]
        /\ calls[i].T[3] # calls[j].T[3]
        /\ calls[i].I = 0 /\ calls[j].I = 2
        /\ Len(contents) = 3

\* C5: a handle_async call for a type (M, R) that exactly one registered
\* asynchronous handler f has, once driven to completion, has produced what
\* driving f(m) directly produces.
C5_HandleAsyncValue ==
    \A i \in 1..Len(calls) :
        LET c == calls[i] IN
        (/\ c.op = "handle_async"
         /\ c.st \in {"ready", "panicked"}
         /\ Cardinality(HandlersOf(c.T)) = 1) =>
            c.result = Drive(TheHandler(c.T), c.msg, 0)

C5_Witness ==
    \E i \in 1..Len(calls) :
        /\ calls[i].op = "handle_async"
        /\ calls[i].st = "ready"
        /\ calls[i].polled = 1
        /\ calls[i].I > 0
        /\ Cardinality(HandlersOf(calls[i].T)) = 1

\* the receivers registered for notifier-set type T, in registration order
ReceiversFor(T) ==
    LET sel == SelectSeq(added, LAMBDA e : npushed[e[1]] = T) IN
    [j \in 1..Len(sel) |-> sel[j][2]]

\* C6: a notify call for message type M that returned has called every
\* receiver that was registered for M while building, in registration order,
\* also when listen_for::<M>() was called more than once.
C6_NotifyCallsEveryReceiverOfType ==
    \A i \in 1..Len(calls) :
        (calls[i].op = "notify" /\ calls[i].st = "returned") =>
            CalledCbs(calls[i].log) = ReceiversFor(calls[i].T)

\* C7: once built, no step (a dispatch call or a poll of a future, in any
\* interleaving) changes the handler list, the notifier-set list or the
\* receivers of any notifier set, and the mediator stays built.
C7_RegistryImmutableAfterBuild ==
    [][phase = "built" =>
          /\ phase' = "built"
          /\ contents' = contents
          /\ receivers' = receivers]_vars

C7_Witness ==
    /\ phase = "built"
    /\ contents # Nil
    /\ \E i, j \in 1..Len(calls) :
           /\ calls[i].op = "handle_async" /\ calls[i].st = "pending"
           /\ calls[j].op = "notify" /\ calls[j].st = "returned"
           /\ Len(calls[j].log) >= 2

\* what the calls look like with respect to failing closures
C8_FailureShape ==
    \A i \in 1..Len(calls) :
        LET c == calls[i]
            called == CalledCbs(c.log) IN
        \* a call that completed normally has invoked no closure that fails
        /\ c.st \in {"returned", "ready"} =>
               \A j \in 1..Len(called) : Beh(called[j], c.msg) # "panic"
        \* a failed fan-out: receivers 1..k-1 ran once each, receiver k failed,
        \* none after k was invoked, and the caller got receiver k's failure
        /\ (c.st = "panicked" /\ c.op \in {"notify", "notify_async"}) =>
               LET rs == AddedTo(SetOf(c))
                   k == Len(called) IN
               /\ k \in 1..Len(rs)
               /\ c.log = FullLog(SubSeq(rs, 1, k - 1))
                              \o <<<<"call", rs[k]>>, <<"panic", rs[k]>>>>
               /\ Beh(rs[k], c.msg) = "panic"
               /\ c.result = Panic(rs[k], c.msg)
        \* a failed handler call: the caller got the handler's failure
        /\ (c.st = "panicked" /\ c.op \in {"handle", "handle_async"}) =>
               \E h \in HandlersOf(c.T) :
                   /\ called = <<hpushed[h].cb>>
                   /\ Beh(hpushed[h].cb, c.msg) = "panic"
                   /\ c.result = Panic(hpushed[h].cb, c.msg)

\* C8: callback failures are not caught: after every step the calls have the
\* shape above, and a step in which a call fails leaves the registry as it was.
C8_CallbackFailuresPropagate ==
    [][/\ C8_FailureShape'
       /\ (\E i \in 1..Len(calls') :
               /\ calls'[i].st = "panicked"
               /\ (i > Len(calls) \/ calls[i].st # "panicked"))
          => (contents' = contents /\ receivers' = receivers)]_vars

C8_Witness ==
    \E i \in 1..Len(calls) :
        /\ calls[i].op = "notify"
        /\ calls[i].st = "panicked"
        /\ Len(CalledCbs(calls[i].log)) = 2
        /\ Len(AddedTo(SetOf(calls[i]))) = 3

\* C9: index k of a typed list is the entry pushed k pushes before the most
\* recent one (index 0 the most recent), so of two valid indices for one type
\* the lower is the later registration; receivers added through take_mut are
\* in the entry take yields, and writing through take_mut at an index changes
\* the entry take yields at that index and no other.
C9_LookupByPosition ==
    /\ Len(contents) = Len(hpushed)
    /\ \A k \in 0..(Len(contents) - 1) :
           take(contents, k) = hpushed[Len(hpushed) - k]
    /\ Len(receivers) = Len(npushed)
    /\ \A k \in 0..(Len(receivers) - 1) :
           /\ Shape(take(receivers, k)) = npushed[Len(npushed) - k]
           /\ take(receivers, k).cbs = AddedTo(Len(npushed) - k)
    /\ \A I, J \in 0..(Len(contents) - 1) :
           (/\ I < J
            /\ ContainsAt(contents, Shape(take(contents, I)), J)) =>
               take(contents, I).cb > take(contents, J).cb
    /\ \A I \in 0..(Len(receivers) - 1) :
           LET new == ReceiveNotification_add(take(receivers, I), 0)
               list == take_mut(receivers, I, new) IN
           /\ Len(list) = Len(receivers)
           /\ take(list, I) = new
           /\ \A J \in 0..(Len(receivers) - 1) :
                  J # I => take(list, J) = take(receivers, J)

C9_Witness ==
    /\ Len(contents) = 3
    /\ ContainsAt(contents, Shape(take(contents, 0)), 2)
    /\ ~ContainsAt(contents, Shape(take(contents, 0)), 1)
    /\ Len(receivers) = 2
    /\ take(receivers, 1).cbs = << >>

Range(seq) == {seq[j] : j \in 1..Len(seq)}

\* C10: adding a receiver for M appends it to the located set, leaves the
\* handler list, the number and order of the notifier sets and the receivers
\* of every other set unchanged; afterwards every notify for M reaches the new
\* receiver and no notify for another type does.
C10_AddReceiverFrameAndReach ==
    [][(phase = "building" /\ added' # added) =>
          LET n == added'[Len(added')][1]
              r == added'[Len(added')][2]
              at == Len(receivers) - n IN
          /\ contents' = contents
          /\ Len(receivers') = Len(receivers)
          /\ \A J \in 0..(Len(receivers) - 1) :
                 /\ Shape(take(receivers', J)) = Shape(take(receivers, J))
                 /\ take(receivers', J).cbs =
                        IF J = at THEN Append(take(receivers, J).cbs, r)
                        ELSE take(receivers, J).cbs
          /\ \A J \in 0..(Len(receivers) - 1) :
                 IF Shape(take(receivers', J)) = npushed[n]
                 THEN r \in Range(take(receivers', J).cbs)
                 ELSE r \notin Range(take(receivers', J).cbs)]_vars

\* what the asynchronous calls have invoked, by how far they were driven
C11_InvokedSoFar ==
    \A i \in 1..Len(calls) :
        LET c == calls[i]
            called == CalledCbs(c.log)
            rs == AddedTo(SetOf(c)) IN
        \* handle_async: the handler was invoked when the call was made, and
        \* driving or dropping the future never invokes it again
        /\ c.op = "handle_async" =>
               /\ \E h \in HandlersOf(c.T) :
                      /\ called = <<hpushed[h].cb>>
                      /\ c.log[1] = <<"call", hpushed[h].cb>>
               /\ c.st = "created" => Len(c.log) = 1
        \* notify_async: receivers are invoked by polls only, and always a
        \* prefix of the set's receivers, also when the future is dropped
        /\ c.op = "notify_async" =>
               /\ c.st = "created" => c.log = << >>
               /\ Len(called) <= Len(rs)
               /\ called = SubSeq(rs, 1, Len(called))
               /\ c.st = "ready" => called = rs

\* C11: handle_async invokes the registered handler exactly once before it
\* returns and only the handler's future is deferred; notify_async returns
\* without having invoked any receiver, a notify_async future that was never
\* driven has invoked none, also when it is dropped, and one dropped part-way
\* has invoked a prefix of the receivers.
C11_AsyncCallbackTiming ==
    [][/\ C11_InvokedSoFar'
       /\ Len(calls') > Len(calls) =>
              LET c == calls'[Len(calls')] IN
              /\ c.op = "handle_async" =>
                     (c.st = "created" /\ Len(CalledCbs(c.log)) = 1)
              /\ c.op = "notify_async" =>
                     (c.st = "created" /\ c.log = << >>)
       /\ \A i \in 1..Len(calls) :
              (calls[i].st = "created" /\ calls'[i].st = "dropped") =>
                  calls'[i].log = calls[i].log]_vars

C11_Witness ==
    \E i, j \in 1..Len(calls) :
        /\ calls[i].op = "notify_async"
        /\ calls[i].st = "dropped"
        /\ Len(CalledCbs(calls[i].log)) = 1
        /\ Len(AddedTo(SetOf(calls[i]))) = 2
        /\ calls[j].op = "notify_async"
        /\ calls[j].st = "dropped"
        /\ calls[j].log = << >>
        /\ calls[j].I = calls[i].I

====
